---------------------------- MODULE Spec2Model ----------------------------
(***************************************************************************)
(* State-machine model of the rcflow diagram editor: the zustand store     *)
(* (lib/store: src/unnamed/part_000 lines 1-98), the canvas handlers       *)
(* (src/components/canvas.tsx), the node component's delete handler        *)
(* (src/components/nodes/custom-node.tsx) and the context menu's delete    *)
(* (src/unnamed/part_000 lines 99-238).                                    *)
(*                                                                         *)
(* Every handler runs to completion (single-threaded event loop), so one   *)
(* handler is one action.  zustand's set() is synchronous and every        *)
(* handler builds new arrays (filter / map / spread), so arrays are        *)
(* modelled as sequence values.  A handler's closure over `nodes` and      *)
(* `edges` is the store's value at the last render, which is the value at  *)
(* the start of the handler.                                               *)
(*                                                                         *)
(* historyIndex keeps the code's 0-based numbering (-1: empty history);    *)
(* the entry at code index i is history[i + 1] here.                       *)
(***************************************************************************)
EXTENDS Integers, Sequences, FiniteSets

\* ------------------------------------------------------------------ bounds
MaxNodes == 2   \* live nodes a pane click may reach
MaxNodesDelete == 3   \* the same, where only creation and deleteNode run
MaxNodesResize == 1   \* the same, where the resize gesture runs
MaxEdges == 1   \* live edges a connect may reach
MaxHist  == 4   \* history entries a commit may reach
MaxHistEraser  == 5   \* history entries, where two edges meet the eraser
MaxEdgesEraser == 2   \* live edges, there
MaxClockEraser == 3   \* largest Date.now() reading, there
MaxClock == 2   \* largest Date.now() reading (readings start at 1)
MaxHistStyle == 3   \* history entries, where the style choices run

\* ------------------------------------------------------------- value sets
\* part_000:4   type Tool
Tools == {"select", "eraser", "rectangle", "circle", "label"}

\* The projected position of a pane click, and the position a drag reports.
ClickPositions == {<<50, 60>>}
DragPositions == {<<10, 20>>}

NoPos == <<0, 0>>

\* The ids a node can carry: the readings of Date.now().
Ids == 1..MaxClockEraser

\* The texts a label or a text buffer can hold.
Labels == {"", "a"}

\* The corner handles of a node, and the pointer deltas (x, y) a move reports.
Directions == {"top-left", "top-right", "bottom-left", "bottom-right"}
Deltas == {<<-100, -100>>, <<30, 30>>}

\* custom-node.tsx:195-196   swatches the popover offers (one of each list)
BackgroundColors == {"#dbeafe"}
TextColors == {"#991b1b"}
BorderStyles == {"solid", "dotted"}

\* part_000:179, 197, 212, 219   updates the context menu's buttons pass to
\* onUpdateNode (one gradient, one text colour, a border style)
MenuUpdates ==
    {[backgroundColor |-> "linear-gradient(135deg, #667eea 0%, #764ba2 100%)"],
     [textColor |-> "#ef4444"],
     [borderStyle |-> "dotted"]}

\* custom-node.tsx:294-346, part_003:94-140   no resize gesture in progress
NoResize ==
    [id |-> 0, variant |-> "none", direction |-> "none",
     startWidth |-> 0, startHeight |-> 0, nodeType |-> "none",
     nodes |-> <<>>, moves |-> 0]

VARIABLES
    currentTool,    \* part_000:38
    nodes,          \* part_000:42   sequence of Node
    edges,          \* part_000:43   sequence of Edge
    history,        \* part_000:48   sequence of [nodes, edges]
    historyIndex,   \* part_000:49
    editingNodeId,  \* part_000:83   0 models null
    selectedNodes,  \* part_000:87   ids of the selected nodes
    now,            \* the last reading of Date.now()
    label,          \* custom-node.tsx:185   the text buffer of each mounted
                    \* node component (components are keyed by node id)
    resizeState,    \* custom-node.tsx:298-301   the gesture's captured start
                    \* size and corner; `moves` counts its pointer-moves
    cap,            \* the sizes the run is explored up to: history
                    \* entries, live edges, clock readings
    popup,          \* custom-node.tsx:186-188, part_003 contextMenu: per
                    \* node component, whether its popover, a nested picker
                    \* and its context menu are open
    liveArrays,     \* which array objects the store's nodes and edges are:
                    \* the (1-based) history entry whose array it is, 0 for
                    \* an array no history entry holds
    lastOp          \* the handler that ran last: its name, the arguments it
                    \* read (id 0: it returned before reading any), and the
                    \* history length and cursor it started from

vars == <<currentTool, nodes, edges, history, historyIndex, editingNodeId,
          selectedNodes, now, label, resizeState, cap, popup, liveArrays,
          lastOp>>

\* ---------------------------------------------------------------- helpers
\* The record a handler leaves in lastOp.
Op(name, id, pos) ==
    [name |-> name, id |-> id, pos |-> pos,
     hlen |-> Len(history), hidx |-> historyIndex]

NodeIds(ns) == {ns[i].id : i \in 1..Len(ns)}
EdgeIds(es) == {es[i].id : i \in 1..Len(es)}

\* a pane click that gives every node the 120x80 size
NewNodeOneSize(t, pos, tool) ==
    [id       |-> t,
     type     |-> "custom",
     position |-> pos,
     data     |-> [label    |-> "",
                   nodeType |-> IF tool = "label" THEN "label" ELSE tool,
                   width    |-> 120,
                   height   |-> 80]]

\* canvas.tsx:84-94   the node a pane click builds
NewNode(t, pos, tool) ==
    [id       |-> t,
     type     |-> "custom",
     position |-> pos,
     data     |-> [label    |-> "",
                   nodeType |-> IF tool = "label" THEN "label" ELSE tool,
                   width    |-> IF tool = "label" THEN 100 ELSE 120,
                   height   |-> IF tool = "label" THEN 40 ELSE 80]]

\* canvas.tsx:60-65   the edge a connect builds (handles carry no id)
NewEdge(t, s, d) == [id |-> t, source |-> s, target |-> d, type |-> "straight"]

\* nodes.filter(node => node.id !== nodeId)
WithoutNode(ns, id) == SelectSeq(ns, LAMBDA n : n.id # id)

\* edges.filter(edge => edge.source !== nodeId && edge.target !== nodeId)
WithoutEdgesOf(es, id) == SelectSeq(es, LAMBDA e : e.source # id /\ e.target # id)

\* edges.filter(e => e.id !== edge.id)
WithoutEdge(es, id) == SelectSeq(es, LAMBDA e : e.id # id)

\* reactflow addEdge: the list is returned as it is when the connection
\* (same source and target, no handle ids) already exists.
AddEdge(e, es) ==
    IF \E i \in 1..Len(es) : es[i].source = e.source /\ es[i].target = e.target
    THEN es
    ELSE Append(es, e)

\* reactflow applyNodeChanges with one position change {id, position}
ApplyPositionChange(ns, id, pos) ==
    [i \in 1..Len(ns) |->
        IF ns[i].id = id THEN [ns[i] EXCEPT !.position = pos] ELSE ns[i]]

\* A commit may run while the log stays within the model's bound.
CanSave == historyIndex + 1 < cap.hist

\* The data of the node with this id, as its component receives it in the
\* `data` prop.  The rendering layer keeps its nodes in a map keyed by id and
\* fills it in list order, so should two nodes share the id the component
\* shows the last one.
DataOf(ns, id) ==
    LET i == CHOOSE i \in 1..Len(ns) :
                 ns[i].id = id /\ \A j \in (i + 1)..Len(ns) : ns[j].id # id
    IN  ns[i].data

LabelOf(ns, id) == DataOf(ns, id).label

\* custom-node.tsx:185   useState(data.label || ''): a component that mounts
\* starts its buffer from the node's label, one that stays mounted keeps its
\* buffer, and an unmounted one has none (modelled as '').
Mounted(buf, before, after) ==
    [id \in Ids |->
        IF id \in NodeIds(after)
        THEN IF id \in NodeIds(before) THEN buf[id] ELSE LabelOf(after, id)
        ELSE ""]

\* custom-node.tsx:186-188   useState(false), useState(null), useState(false)
\* and part_003's useState(null) for the context menu
Closed == [show |-> FALSE, color |-> "none", border |-> FALSE, menu |-> FALSE]

\* A component that unmounts loses its popover state.
PopupMounted(p, after) ==
    [id \in Ids |-> IF id \in NodeIds(after) THEN p[id] ELSE Closed]

\* The handlers that hand setNodes / setEdges a new array (filter, map,
\* spread, applyNodeChanges) when they act.
NodesWriters ==
    {"deleteNode", "onNodesChange", "onPaneClick", "onNodeClick",
     "handleDelete", "contextMenuDelete", "handleTextSubmit",
     "handleTextSubmitFirst", "handleMouseMove", "handleResizeMove",
     "handleColorChange", "handleBorderChange", "onUpdateNode"}
EdgesWriters ==
    {"deleteNode", "onEdgesChange", "onConnect", "onNodeClick", "onEdgeClick"}

\* part_000:44-45, 59-80   set({nodes}) makes the argument the live array.
\* undo and redo pass the history entry's own arrays; the other handlers
\* pass a new array, except addEdge, which returns the list it was given
\* when the connection exists.
LiveArraysTracked ==
    liveArrays' =
        IF lastOp'.name \in {"undo", "redo"}
        THEN IF historyIndex' # historyIndex
             THEN [nodes |-> historyIndex' + 1, edges |-> historyIndex' + 1]
             ELSE liveArrays
        ELSE [nodes |-> IF lastOp'.name \in NodesWriters /\ lastOp'.id # 0
                        THEN 0 ELSE liveArrays.nodes,
              edges |-> IF /\ lastOp'.name \in EdgesWriters
                           /\ lastOp'.id # 0
                           /\ (lastOp'.name = "onConnect" => edges' # edges)
                        THEN 0 ELSE liveArrays.edges]

\* What a handler outside the node component leaves of the components' local
\* state: buffers follow mounting, a gesture in progress is untouched.
SessionKept ==
    /\ label' = Mounted(label, nodes, nodes')
    /\ popup' = PopupMounted(popup, nodes')
    /\ LiveArraysTracked
    /\ UNCHANGED <<resizeState, cap>>

\* --------------------------------------------------------------- the store
Init ==
    /\ currentTool = "select"
    /\ nodes = <<>>
    /\ edges = <<>>
    /\ history = <<>>
    /\ historyIndex = -1
    /\ editingNodeId = 0
    /\ selectedNodes = {}
    /\ now = 1
    /\ label = [id \in Ids |-> ""]
    /\ resizeState = NoResize
    /\ cap = [hist |-> MaxHist, edges |-> MaxEdges, clock |-> MaxClock]
    /\ popup = [id \in Ids |-> Closed]
    /\ liveArrays = [nodes |-> 0, edges |-> 0]
    /\ lastOp = [name |-> "init", id |-> 0, pos |-> NoPos,
                 hlen |-> 0, hidx |-> -1]

\* saveToHistory with the cursor set to the new length (no "- 1")
SaveToHistoryCursorAtLength ==
    LET newHistory == Append(SubSeq(history, 1, historyIndex + 1),
                             [nodes |-> nodes', edges |-> edges'])
    IN  /\ history' = newHistory
        /\ historyIndex' = Len(newHistory)

\* saveToHistory that pushes onto the whole log (no slice at the cursor)
SaveToHistoryNoTruncate ==
    LET newHistory == Append(history, [nodes |-> nodes', edges |-> edges'])
    IN  /\ history' = newHistory
        /\ historyIndex' = Len(newHistory) - 1

\* saveToHistory that snapshots the document the handler started from
SaveToHistoryStale ==
    LET newHistory == Append(SubSeq(history, 1, historyIndex + 1),
                             [nodes |-> nodes, edges |-> edges])
    IN  /\ history' = newHistory
        /\ historyIndex' = Len(newHistory) - 1

\* saveToHistory whose first commit also records the document the handler
\* started from
SaveToHistoryRecordsInitial ==
    LET kept == IF history = <<>>
                THEN <<[nodes |-> nodes, edges |-> edges]>>
                ELSE SubSeq(history, 1, historyIndex + 1)
        newHistory == Append(kept, [nodes |-> nodes', edges |-> edges'])
    IN  /\ history' = newHistory
        /\ historyIndex' = Len(newHistory) - 1

\* saveToHistory that slices one entry short, so the snapshot takes the
\* place of the entry at the cursor
SaveToHistoryReplacesCursor ==
    LET newHistory == Append(SubSeq(history, 1, historyIndex),
                             [nodes |-> nodes', edges |-> edges'])
    IN  /\ history' = newHistory
        /\ historyIndex' = Len(newHistory) - 1

\* part_000:50-58   saveToHistory reads the store after the handler's set()s
SaveToHistory ==
    LET newHistory == Append(SubSeq(history, 1, historyIndex + 1),
                             [nodes |-> nodes', edges |-> edges'])
    IN  /\ history' = newHistory
        /\ historyIndex' = Len(newHistory) - 1

\* The part of the store that undo and redo read and write.
Store ==
    [nodes |-> nodes, edges |-> edges,
     history |-> history, historyIndex |-> historyIndex]

\* undo that steps the cursor back but restores the entry it leaves
UndoOfSameEntry(st) ==
    IF st.historyIndex > 0
    THEN LET prevState == st.history[st.historyIndex + 1]
         IN  [st EXCEPT !.nodes = prevState.nodes,
                        !.edges = prevState.edges,
                        !.historyIndex = st.historyIndex - 1]
    ELSE st

\* undo guarded by "historyIndex >= 0": at the first entry it clears the
\* document and steps the cursor to -1
UndoOfPastFirst(st) ==
    IF st.historyIndex > 0
    THEN LET prevState == st.history[(st.historyIndex - 1) + 1]
         IN  [st EXCEPT !.nodes = prevState.nodes,
                        !.edges = prevState.edges,
                        !.historyIndex = st.historyIndex - 1]
    ELSE IF st.historyIndex = 0
    THEN [st EXCEPT !.nodes = <<>>, !.edges = <<>>, !.historyIndex = -1]
    ELSE st

\* undo that also drops the entries after the new cursor
UndoOfDropsFuture(st) ==
    IF st.historyIndex > 0
    THEN LET prevState == st.history[(st.historyIndex - 1) + 1]
         IN  [st EXCEPT !.nodes = prevState.nodes,
                        !.edges = prevState.edges,
                        !.history = SubSeq(st.history, 1, st.historyIndex),
                        !.historyIndex = st.historyIndex - 1]
    ELSE st

\* part_000:59-69   undo, as a function of the store
UndoOf(st) ==
    IF st.historyIndex > 0
    THEN LET prevState == st.history[(st.historyIndex - 1) + 1]
         IN  [st EXCEPT !.nodes = prevState.nodes,
                        !.edges = prevState.edges,
                        !.historyIndex = st.historyIndex - 1]
    ELSE st

\* redo that advances the cursor and restores the edges but not the nodes
RedoOfKeepsNodes(st) ==
    IF st.historyIndex < Len(st.history) - 1
    THEN LET nextState == st.history[(st.historyIndex + 1) + 1]
         IN  [st EXCEPT !.edges = nextState.edges,
                        !.historyIndex = st.historyIndex + 1]
    ELSE st

\* part_000:70-80   redo, as a function of the store
RedoOf(st) ==
    IF st.historyIndex < Len(st.history) - 1
    THEN LET nextState == st.history[(st.historyIndex + 1) + 1]
         IN  [st EXCEPT !.nodes = nextState.nodes,
                        !.edges = nextState.edges,
                        !.historyIndex = st.historyIndex + 1]
    ELSE st

\* set() of the store fields undo and redo write
SetStore(st) ==
    /\ nodes' = st.nodes
    /\ edges' = st.edges
    /\ history' = st.history
    /\ historyIndex' = st.historyIndex

Undo ==
    /\ SetStore(UndoOf(Store))
    /\ lastOp' = Op("undo", 0, NoPos)
    /\ UNCHANGED <<currentTool, editingNodeId, selectedNodes, now>>
    /\ SessionKept

Redo ==
    /\ SetStore(RedoOf(Store))
    /\ lastOp' = Op("redo", 0, NoPos)
    /\ UNCHANGED <<currentTool, editingNodeId, selectedNodes, now>>
    /\ SessionKept

\* part_000:39
SetCurrentTool(tool) ==
    /\ currentTool' = tool
    /\ lastOp' = Op("setCurrentTool", 0, NoPos)
    /\ UNCHANGED <<nodes, edges, history, historyIndex, editingNodeId,
                   selectedNodes, now>>
    /\ SessionKept

\* deleteNode that leaves the edges alone
DeleteNodeKeepsEdges(nodeId) ==
    /\ CanSave
    /\ nodes' = WithoutNode(nodes, nodeId)
    /\ edges' = edges
    /\ SaveToHistory
    /\ lastOp' = Op("deleteNode", nodeId, NoPos)
    /\ UNCHANGED <<currentTool, editingNodeId, selectedNodes, now>>
    /\ SessionKept

\* deleteNode that commits only when it removed an edge
DeleteNodeCommitsForEdges(nodeId) ==
    /\ CanSave
    /\ nodes' = WithoutNode(nodes, nodeId)
    /\ edges' = WithoutEdgesOf(edges, nodeId)
    /\ IF edges' # edges
       THEN SaveToHistory
       ELSE UNCHANGED <<history, historyIndex>>
    /\ lastOp' = Op("deleteNode", nodeId, NoPos)
    /\ UNCHANGED <<currentTool, editingNodeId, selectedNodes, now>>
    /\ SessionKept

\* deleteNode that returns at once when no node carries the id
DeleteNodeSkipsAbsent(nodeId) ==
    /\ CanSave
    /\ IF nodeId \in NodeIds(nodes)
       THEN /\ nodes' = WithoutNode(nodes, nodeId)
            /\ edges' = WithoutEdgesOf(edges, nodeId)
            /\ SaveToHistory
       ELSE UNCHANGED <<nodes, edges, history, historyIndex>>
    /\ lastOp' = Op("deleteNode", nodeId, NoPos)
    /\ UNCHANGED <<currentTool, editingNodeId, selectedNodes, now>>
    /\ SessionKept

\* part_000:91-97   the store's deleteNode
DeleteNode(nodeId) ==
    /\ CanSave
    /\ nodes' = WithoutNode(nodes, nodeId)
    /\ edges' = WithoutEdgesOf(edges, nodeId)
    /\ SaveToHistory
    /\ lastOp' = Op("deleteNode", nodeId, NoPos)
    /\ UNCHANGED <<currentTool, editingNodeId, selectedNodes, now>>
    /\ SessionKept

\* a double click that first writes the buffer of the node edited so far into
\* its label
HandleDoubleClickCommitsPrevious(id) ==
    /\ editingNodeId' = id
    /\ nodes' = IF editingNodeId \in NodeIds(nodes)
                THEN [i \in 1..Len(nodes) |->
                        IF nodes[i].id = editingNodeId
                        THEN [nodes[i] EXCEPT !.data.label = label[editingNodeId]]
                        ELSE nodes[i]]
                ELSE nodes
    /\ popup' = [popup EXCEPT ![id].show = FALSE]
    /\ lastOp' = Op("handleDoubleClick", id, NoPos)
    /\ UNCHANGED <<currentTool, edges, history, historyIndex,
                   selectedNodes, now, label, resizeState, cap, liveArrays>>

\* part_000:84 called from custom-node.tsx:218-223 (handleDoubleClick),
\* which also closes the node's popover
HandleDoubleClick(id) ==
    /\ editingNodeId' = id
    /\ popup' = [popup EXCEPT ![id].show = FALSE]
    /\ lastOp' = Op("handleDoubleClick", id, NoPos)
    /\ UNCHANGED <<currentTool, nodes, edges, history, historyIndex,
                   selectedNodes, now, label, resizeState, cap, liveArrays>>

\* ------------------------------------------------------------- the canvas
\* a canvas whose nodes can be dragged with every tool
NodesDraggableAlways == TRUE

\* canvas.tsx:152-156   the interactivity flags handed to the rendering layer
NodesDraggable == currentTool = "select"
NodesConnectable == currentTool = "select"
ElementsSelectable == currentTool = "select"
PanOnDrag == currentTool = "select"
ZoomOnScroll == currentTool = "select"

\* onNodesChange that commits every change-list
OnNodesChangeCommitting(id, pos) ==
    /\ NodesDraggable
    /\ CanSave
    /\ nodes' = ApplyPositionChange(nodes, id, pos)
    /\ edges' = edges
    /\ SaveToHistory
    /\ lastOp' = Op("onNodesChange", id, pos)
    /\ UNCHANGED <<currentTool, editingNodeId, selectedNodes, now>>
    /\ SessionKept

\* canvas.tsx:44-49   a position change of a drag in progress; nodes are
\* draggable only with the select tool (canvas.tsx:152)
OnNodesChange(id, pos) ==
    /\ NodesDraggable
    /\ nodes' = ApplyPositionChange(nodes, id, pos)
    /\ lastOp' = Op("onNodesChange", id, pos)
    /\ UNCHANGED <<currentTool, edges, history, historyIndex, editingNodeId,
                   selectedNodes, now>>
    /\ SessionKept

\* canvas.tsx:51-56   a remove change for one edge (the library's delete key
\* on a selected edge; elements are selectable only with the select tool)
OnEdgesChange(id) ==
    /\ ElementsSelectable
    /\ edges' = WithoutEdge(edges, id)
    /\ lastOp' = Op("onEdgesChange", id, NoPos)
    /\ UNCHANGED <<currentTool, nodes, history, historyIndex, editingNodeId,
                   selectedNodes, now>>
    /\ SessionKept

\* canvas.tsx:58-70   connections can be drawn only with the select tool
\* (canvas.tsx:153) and, the handles having no id, only between two nodes
OnConnect(t, source, target) ==
    /\ NodesConnectable
    /\ CanSave
    /\ Len(AddEdge(NewEdge(t, source, target), edges)) <= cap.edges
    /\ now' = t
    /\ edges' = AddEdge(NewEdge(t, source, target), edges)
    /\ nodes' = nodes
    /\ SaveToHistory
    /\ lastOp' = Op("onConnect", t, NoPos)
    /\ UNCHANGED <<currentTool, editingNodeId, selectedNodes>>
    /\ SessionKept

\* a pane click that creates a node with every tool, select included
OnPaneClickAnyTool(t, pos) ==
    /\ lastOp' = Op("onPaneClick", IF currentTool = "select" THEN 0 ELSE t,
                    IF currentTool = "select" THEN NoPos ELSE pos)
    /\ CanSave
    /\ now' = t
    /\ nodes' = Append(nodes, NewNode(t, pos, currentTool))
    /\ edges' = edges
    /\ SaveToHistory
    /\ currentTool' = "select"
    /\ UNCHANGED <<editingNodeId, selectedNodes>>
    /\ SessionKept

\* canvas.tsx:72-103   the wrapper element is mounted whenever a click can
\* arrive, so `bounds` is defined
OnPaneClick(t, pos) ==
    /\ IF currentTool = "select"
       THEN /\ lastOp' = Op("onPaneClick", 0, NoPos)
            /\ UNCHANGED <<currentTool, nodes, edges, history, historyIndex, now>>
       ELSE /\ lastOp' = Op("onPaneClick", t, pos)
            /\ CanSave
            /\ now' = t
            /\ nodes' = Append(nodes, NewNode(t, pos, currentTool))
            /\ edges' = edges
            /\ SaveToHistory
            /\ currentTool' = "select"
    /\ UNCHANGED <<editingNodeId, selectedNodes>>
    /\ SessionKept

\* canvas.tsx:105-110
OnSelectionChange(ids) ==
    /\ ElementsSelectable
    /\ selectedNodes' = ids
    /\ lastOp' = Op("onSelectionChange", 0, NoPos)
    /\ UNCHANGED <<currentTool, nodes, edges, history, historyIndex,
                   editingNodeId, now>>
    /\ SessionKept

\* eraser click on a node that leaves the edges alone
OnNodeClickKeepsEdges(id) ==
    /\ IF currentTool = "eraser"
       THEN /\ lastOp' = Op("onNodeClick", id, NoPos)
            /\ CanSave
            /\ nodes' = WithoutNode(nodes, id)
            /\ edges' = edges
            /\ SaveToHistory
       ELSE /\ lastOp' = Op("onNodeClick", 0, NoPos)
            /\ UNCHANGED <<nodes, edges, history, historyIndex>>
    /\ UNCHANGED <<currentTool, editingNodeId, selectedNodes, now>>
    /\ SessionKept

\* canvas.tsx:112-121
OnNodeClick(id) ==
    /\ IF currentTool = "eraser"
       THEN /\ lastOp' = Op("onNodeClick", id, NoPos)
            /\ CanSave
            /\ nodes' = WithoutNode(nodes, id)
            /\ edges' = WithoutEdgesOf(edges, id)
            /\ SaveToHistory
       ELSE /\ lastOp' = Op("onNodeClick", 0, NoPos)
            /\ UNCHANGED <<nodes, edges, history, historyIndex>>
    /\ UNCHANGED <<currentTool, editingNodeId, selectedNodes, now>>
    /\ SessionKept

\* eraser click on an edge that clears the whole edge list
OnEdgeClickClearsEdges(id) ==
    /\ IF currentTool = "eraser"
       THEN /\ lastOp' = Op("onEdgeClick", id, NoPos)
            /\ CanSave
            /\ edges' = <<>>
            /\ nodes' = nodes
            /\ SaveToHistory
       ELSE /\ lastOp' = Op("onEdgeClick", 0, NoPos)
            /\ UNCHANGED <<nodes, edges, history, historyIndex>>
    /\ UNCHANGED <<currentTool, editingNodeId, selectedNodes, now>>
    /\ SessionKept

\* canvas.tsx:123-131
OnEdgeClick(id) ==
    /\ IF currentTool = "eraser"
       THEN /\ lastOp' = Op("onEdgeClick", id, NoPos)
            /\ CanSave
            /\ edges' = WithoutEdge(edges, id)
            /\ nodes' = nodes
            /\ SaveToHistory
       ELSE /\ lastOp' = Op("onEdgeClick", 0, NoPos)
            /\ UNCHANGED <<nodes, edges, history, historyIndex>>
    /\ UNCHANGED <<currentTool, editingNodeId, selectedNodes, now>>
    /\ SessionKept

\* canvas.tsx:133-135   a drag ends only where nodes are draggable
OnNodeDragStop ==
    /\ NodesDraggable
    /\ CanSave
    /\ nodes' = nodes
    /\ edges' = edges
    /\ SaveToHistory
    /\ lastOp' = Op("onNodeDragStop", 0, NoPos)
    /\ UNCHANGED <<currentTool, editingNodeId, selectedNodes, now>>
    /\ SessionKept

\* ------------------------------------------------- the node's delete paths
\* custom-node.tsx:287-292   the inline popover's delete
HandleDelete(id) ==
    /\ CanSave
    /\ nodes' = WithoutNode(nodes, id)
    /\ edges' = edges
    /\ SaveToHistory
    /\ lastOp' = Op("handleDelete", id, NoPos)
    /\ UNCHANGED <<currentTool, editingNodeId, selectedNodes, now>>
    /\ SessionKept

\* part_000:132-137   the context menu's delete
ContextMenuDelete(nodeId) ==
    /\ CanSave
    /\ nodes' = WithoutNode(nodes, nodeId)
    /\ edges' = edges
    /\ SaveToHistory
    /\ lastOp' = Op("contextMenuDelete", nodeId, NoPos)
    /\ UNCHANGED <<currentTool, editingNodeId, selectedNodes, now>>
    /\ SessionKept

\* ---------------------------------------------------------- text editing
\* a keystroke that also writes the text into the node's label in the store
HandleTextChangeWritesStore(id, text) ==
    /\ editingNodeId = id
    /\ id \in NodeIds(nodes)
    /\ label' = [label EXCEPT ![id] = text]
    /\ nodes' = [i \in 1..Len(nodes) |->
                    IF nodes[i].id = id
                    THEN [nodes[i] EXCEPT !.data.label = text]
                    ELSE nodes[i]]
    /\ lastOp' = Op("handleTextChange", id, NoPos)
    /\ UNCHANGED <<currentTool, edges, history, historyIndex,
                   editingNodeId, selectedNodes, now, resizeState, cap, popup,
                   liveArrays>>

\* custom-node.tsx:232-234   a keystroke in the textarea, which is rendered
\* while the node is the text-editing target (line 539)
HandleTextChange(id, text) ==
    /\ editingNodeId = id
    /\ id \in NodeIds(nodes)
    /\ label' = [label EXCEPT ![id] = text]
    /\ lastOp' = Op("handleTextChange", id, NoPos)
    /\ UNCHANGED <<currentTool, nodes, edges, history, historyIndex,
                   editingNodeId, selectedNodes, now, resizeState, cap, popup,
                   liveArrays>>

\* custom-node.tsx:237-241   nodes.map that writes the buffer into the label
\* of the node(s) with this id
WithLabel(ns, id, text) ==
    [i \in 1..Len(ns) |->
        IF ns[i].id = id THEN [ns[i] EXCEPT !.data.label = text] ELSE ns[i]]

\* custom-node.tsx:236-246   Enter without Shift (249-251) or blur (259-261)
HandleTextSubmit(id) ==
    /\ editingNodeId = id
    /\ id \in NodeIds(nodes)
    /\ CanSave
    /\ nodes' = WithLabel(nodes, id, label[id])
    /\ edges' = edges
    /\ editingNodeId' = 0
    /\ SaveToHistory
    /\ lastOp' = Op("handleTextSubmit", id, NoPos)
    /\ UNCHANGED <<currentTool, selectedNodes, now>>
    /\ SessionKept

\* custom-node.tsx:38-47   the same in the file's first variant, which has
\* no saveToHistory()
HandleTextSubmitFirst(id) ==
    /\ editingNodeId = id
    /\ id \in NodeIds(nodes)
    /\ nodes' = WithLabel(nodes, id, label[id])
    /\ editingNodeId' = 0
    /\ lastOp' = Op("handleTextSubmitFirst", id, NoPos)
    /\ UNCHANGED <<currentTool, edges, history, historyIndex, selectedNodes,
                   now>>
    /\ SessionKept

\* Escape that clears the target and keeps the buffer
HandleKeyDownEscapeKeepsBuffer(id) ==
    /\ editingNodeId = id
    /\ id \in NodeIds(nodes)
    /\ editingNodeId' = 0
    /\ label' = label
    /\ lastOp' = Op("handleKeyDownEscape", id, NoPos)
    /\ UNCHANGED <<currentTool, nodes, edges, history, historyIndex,
                   selectedNodes, now, resizeState, cap, popup,
                   liveArrays>>

\* custom-node.tsx:252-256   the Escape branch of handleKeyDown
HandleKeyDownEscape(id) ==
    /\ editingNodeId = id
    /\ id \in NodeIds(nodes)
    /\ editingNodeId' = 0
    /\ label' = [label EXCEPT ![id] = LabelOf(nodes, id)]
    /\ lastOp' = Op("handleKeyDownEscape", id, NoPos)
    /\ UNCHANGED <<currentTool, nodes, edges, history, historyIndex,
                   selectedNodes, now, resizeState, cap, popup,
                   liveArrays>>

\* ------------------------------------------------------ the resize gesture
Max(a, b) == IF a >= b THEN a ELSE b
Min(a, b) == IF a <= b THEN a ELSE b

\* the size of a move without the minimum floor
NewSizeUnclamped(direction, startWidth, startHeight, deltaX, deltaY) ==
    CASE direction = "bottom-right" ->
             [width |-> startWidth + deltaX, height |-> startHeight + deltaY]
      [] direction = "bottom-left" ->
             [width |-> startWidth - deltaX, height |-> startHeight + deltaY]
      [] direction = "top-right" ->
             [width |-> startWidth + deltaX, height |-> startHeight - deltaY]
      [] direction = "top-left" ->
             [width |-> startWidth - deltaX, height |-> startHeight - deltaY]
      [] OTHER -> [width |-> startWidth, height |-> startHeight]

\* the size of a move whose top-left corner adds the delta, as the
\* bottom-right one does
NewSizeTopLeftAdds(direction, startWidth, startHeight, deltaX, deltaY) ==
    CASE direction = "bottom-right" ->
             [width  |-> Max(60, startWidth + deltaX),
              height |-> Max(40, startHeight + deltaY)]
      [] direction = "bottom-left" ->
             [width  |-> Max(60, startWidth - deltaX),
              height |-> Max(40, startHeight + deltaY)]
      [] direction = "top-right" ->
             [width  |-> Max(60, startWidth + deltaX),
              height |-> Max(40, startHeight - deltaY)]
      [] direction = "top-left" ->
             [width  |-> Max(60, startWidth + deltaX),
              height |-> Max(40, startHeight + deltaY)]
      [] OTHER -> [width |-> startWidth, height |-> startHeight]

\* custom-node.tsx:307-327   the size a move computes from the start size and
\* the cumulative delta, by corner
NewSize(direction, startWidth, startHeight, deltaX, deltaY) ==
    CASE direction = "bottom-right" ->
             [width  |-> Max(60, startWidth + deltaX),
              height |-> Max(40, startHeight + deltaY)]
      [] direction = "bottom-left" ->
             [width  |-> Max(60, startWidth - deltaX),
              height |-> Max(40, startHeight + deltaY)]
      [] direction = "top-right" ->
             [width  |-> Max(60, startWidth + deltaX),
              height |-> Max(40, startHeight - deltaY)]
      [] direction = "top-left" ->
             [width  |-> Max(60, startWidth - deltaX),
              height |-> Max(40, startHeight - deltaY)]
      [] OTHER -> [width |-> startWidth, height |-> startHeight]

\* part_003:111-125   the same in the context-menu variant: the handle's name
\* is tested for 'right', 'left', 'bottom' and 'top' in turn
NewSizeContextMenu(resizeHandle, startWidth, startHeight, deltaX, deltaY) ==
    LET right  == resizeHandle \in {"top-right", "bottom-right"}
        left   == resizeHandle \in {"top-left", "bottom-left"}
        bottom == resizeHandle \in {"bottom-left", "bottom-right"}
        top    == resizeHandle \in {"top-left", "top-right"}
        width1  == IF right THEN Max(50, startWidth + deltaX) ELSE startWidth
        width2  == IF left THEN Max(50, startWidth - deltaX) ELSE width1
        height1 == IF bottom THEN Max(30, startHeight + deltaY)
                   ELSE startHeight
        height2 == IF top THEN Max(30, startHeight - deltaY) ELSE height1
    IN  [width |-> width2, height |-> height2]

\* the aspect lock left out: a circle is written as any other node
AspectLockOff(nodeType, size) == size

\* custom-node.tsx:329-334, part_003:127-132   for circles both sides become
\* the smaller one
AspectLock(nodeType, size) ==
    IF nodeType = "circle"
    THEN LET side == Min(size.width, size.height)
         IN  [width |-> side, height |-> side]
    ELSE size

\* custom-node.tsx:264-268   nodes.map that merges {width, height} into the
\* data of the node(s) with this id
WithSize(ns, id, size) ==
    [i \in 1..Len(ns) |->
        IF ns[i].id = id
        THEN [ns[i] EXCEPT !.data.width = size.width,
                           !.data.height = size.height]
        ELSE ns[i]]

\* custom-node.tsx:294-301, 344-345   pointer-down on a corner handle; the
\* handles are rendered while the node is selected (line 400).  The move
\* listener closes over this render's data.nodeType and `nodes`.
HandleResizeMouseDown(id, direction) ==
    /\ resizeState = NoResize
    /\ id \in NodeIds(nodes)
    /\ id \in selectedNodes
    /\ resizeState' =
           [id |-> id, variant |-> "popover", direction |-> direction,
            startWidth |-> DataOf(nodes, id).width,
            startHeight |-> DataOf(nodes, id).height,
            nodeType |-> DataOf(nodes, id).nodeType,
            nodes |-> nodes, moves |-> 0]
    /\ lastOp' = Op("handleResizeMouseDown", id, NoPos)
    /\ UNCHANGED <<currentTool, nodes, edges, history, historyIndex,
                   editingNodeId, selectedNodes, now, label, cap, popup,
                   liveArrays>>

\* custom-node.tsx:303-337 with updateNodeData (263-271): every pointer-move
\* writes the size and calls saveToHistory()
HandleMouseMove(delta) ==
    /\ resizeState.variant = "popover"
    /\ CanSave
    /\ LET size == AspectLock(resizeState.nodeType,
                              NewSize(resizeState.direction,
                                      resizeState.startWidth,
                                      resizeState.startHeight,
                                      delta[1], delta[2]))
       IN  nodes' = WithSize(resizeState.nodes, resizeState.id, size)
    /\ edges' = edges
    /\ SaveToHistory
    /\ resizeState' = [resizeState EXCEPT !.moves = @ + 1]
    /\ lastOp' = Op("handleMouseMove", resizeState.id, delta)
    /\ label' = Mounted(label, nodes, nodes')
    /\ popup' = PopupMounted(popup, nodes')
    /\ LiveArraysTracked
    /\ UNCHANGED <<currentTool, editingNodeId, selectedNodes, now, cap>>

\* custom-node.tsx:339-342   pointer-up removes the listeners, nothing else
HandleMouseUp ==
    /\ resizeState.variant = "popover"
    /\ resizeState' = NoResize
    /\ lastOp' = Op("handleMouseUp", resizeState.id, NoPos)
    /\ UNCHANGED <<currentTool, nodes, edges, history, historyIndex,
                   editingNodeId, selectedNodes, now, label, cap, popup,
                   liveArrays>>

\* part_003:94-103   pointer-down in the context-menu variant; its handles
\* are rendered while the node is selected and is no label (line 206)
HandleResizeStart(id, handle) ==
    /\ resizeState = NoResize
    /\ id \in NodeIds(nodes)
    /\ id \in selectedNodes
    /\ DataOf(nodes, id).nodeType # "label"
    /\ resizeState' =
           [id |-> id, variant |-> "contextMenu", direction |-> handle,
            startWidth |-> DataOf(nodes, id).width,
            startHeight |-> DataOf(nodes, id).height,
            nodeType |-> "none", nodes |-> <<>>, moves |-> 0]
    /\ lastOp' = Op("handleResizeStart", id, NoPos)
    /\ UNCHANGED <<currentTool, nodes, edges, history, historyIndex,
                   editingNodeId, selectedNodes, now, label, cap, popup,
                   liveArrays>>

\* part_003:105-135 with updateNodeData (84-92); the listener is renewed at
\* every render, so it reads the current data.nodeType and `nodes`
HandleResizeMove(delta) ==
    /\ resizeState.variant = "contextMenu"
    /\ resizeState.id \in NodeIds(nodes)
    /\ CanSave
    /\ LET size == AspectLock(DataOf(nodes, resizeState.id).nodeType,
                              NewSizeContextMenu(resizeState.direction,
                                                 resizeState.startWidth,
                                                 resizeState.startHeight,
                                                 delta[1], delta[2]))
       IN  nodes' = WithSize(nodes, resizeState.id, size)
    /\ edges' = edges
    /\ SaveToHistory
    /\ resizeState' = [resizeState EXCEPT !.moves = @ + 1]
    /\ lastOp' = Op("handleResizeMove", resizeState.id, delta)
    /\ label' = Mounted(label, nodes, nodes')
    /\ popup' = PopupMounted(popup, nodes')
    /\ LiveArraysTracked
    /\ UNCHANGED <<currentTool, editingNodeId, selectedNodes, now, cap>>

\* part_003:137-140
HandleResizeEnd ==
    /\ resizeState.variant = "contextMenu"
    /\ resizeState' = NoResize
    /\ lastOp' = Op("handleResizeEnd", resizeState.id, NoPos)
    /\ UNCHANGED <<currentTool, nodes, edges, history, historyIndex,
                   editingNodeId, selectedNodes, now, label, cap, popup,
                   liveArrays>>

\* ------------------------------------------- the popover and the context menu
\* a node counts as the text-editing one whenever any node is being edited
IsTextEditingAny(id) == editingNodeId # 0

\* custom-node.tsx:193   isTextEditing
IsTextEditing(id) == editingNodeId = id

\* custom-node.tsx:344-345   the gesture's move and up listeners are attached
\* for this node
Resizing(id) == resizeState.id = id

\* custom-node.tsx:422   the popover is drawn while showPopup is set and the
\* node is not the text-editing one
PopupShown(id) == popup[id].show /\ ~IsTextEditing(id)

\* { ...node.data, ...updates }
Merge(data, updates) ==
    [k \in (DOMAIN data) \cup (DOMAIN updates) |->
        IF k \in DOMAIN updates THEN updates[k] ELSE data[k]]

\* nodes.map that puts the whole `updates` in place of the data
WithDataReplaced(ns, id, updates) ==
    [i \in 1..Len(ns) |->
        IF ns[i].id = id THEN [ns[i] EXCEPT !.data = updates] ELSE ns[i]]

\* custom-node.tsx:264-268, part_003:85-89   nodes.map that merges `updates`
\* into the data of the node(s) with this id
WithData(ns, id, updates) ==
    [i \in 1..Len(ns) |->
        IF ns[i].id = id
        THEN [ns[i] EXCEPT !.data = Merge(ns[i].data, updates)]
        ELSE ns[i]]

\* custom-node.tsx:205-216   the document's mousedown listener, for a
\* mousedown outside the node's element
HandleClickOutside(id) ==
    /\ id \in NodeIds(nodes)
    /\ popup' = [popup EXCEPT ![id].show = FALSE, ![id].color = "none",
                              ![id].border = FALSE]
    /\ lastOp' = Op("handleClickOutside", id, NoPos)
    /\ UNCHANGED <<currentTool, nodes, edges, history, historyIndex,
                   editingNodeId, selectedNodes, now, label, resizeState, cap,
                   liveArrays>>

\* custom-node.tsx:225-230   a click on the node toggles its popover unless
\* the node is the text-editing one
HandleSingleClick(id) ==
    /\ id \in NodeIds(nodes)
    /\ popup' = IF ~IsTextEditing(id)
                THEN [popup EXCEPT ![id].show = ~popup[id].show]
                ELSE popup
    /\ lastOp' = Op("handleSingleClick", id, NoPos)
    /\ UNCHANGED <<currentTool, nodes, edges, history, historyIndex,
                   editingNodeId, selectedNodes, now, label, resizeState, cap,
                   liveArrays>>

\* custom-node.tsx:431-435, 461-465   the popover's two colour buttons
ToggleColorPicker(id, type) ==
    /\ id \in NodeIds(nodes)
    /\ PopupShown(id)
    /\ popup' = [popup EXCEPT
                    ![id].color = IF popup[id].color = type THEN "none"
                                  ELSE type,
                    ![id].border = FALSE]
    /\ lastOp' = Op("toggleColorPicker", id, NoPos)
    /\ UNCHANGED <<currentTool, nodes, edges, history, historyIndex,
                   editingNodeId, selectedNodes, now, label, resizeState, cap,
                   liveArrays>>

\* custom-node.tsx:491-495   the popover's border button
ToggleBorderPicker(id) ==
    /\ id \in NodeIds(nodes)
    /\ PopupShown(id)
    /\ popup' = [popup EXCEPT ![id].border = ~popup[id].border,
                              ![id].color = "none"]
    /\ lastOp' = Op("toggleBorderPicker", id, NoPos)
    /\ UNCHANGED <<currentTool, nodes, edges, history, historyIndex,
                   editingNodeId, selectedNodes, now, label, resizeState, cap,
                   liveArrays>>

\* a swatch click that puts the colour in place of the node's data
HandleColorChangeReplacesData(id, color, type) ==
    /\ id \in NodeIds(nodes)
    /\ PopupShown(id)
    /\ popup[id].color = type
    /\ CanSave
    /\ nodes' = WithDataReplaced(nodes, id,
                    IF type = "background"
                    THEN [backgroundColor |-> color]
                    ELSE [textColor |-> color])
    /\ edges' = edges
    /\ SaveToHistory
    /\ popup' = [popup EXCEPT ![id].color = "none"]
    /\ lastOp' = Op("handleColorChange", id, NoPos)
    /\ label' = Mounted(label, nodes, nodes')
    /\ LiveArraysTracked
    /\ UNCHANGED <<currentTool, editingNodeId, selectedNodes, now, resizeState,
                   cap>>

\* custom-node.tsx:273-280 with updateNodeData (263-271)   a swatch of the
\* open colour picker
HandleColorChange(id, color, type) ==
    /\ id \in NodeIds(nodes)
    /\ PopupShown(id)
    /\ popup[id].color = type
    /\ CanSave
    /\ nodes' = WithData(nodes, id,
                    IF type = "background"
                    THEN [backgroundColor |-> color]
                    ELSE [textColor |-> color])
    /\ edges' = edges
    /\ SaveToHistory
    /\ popup' = [popup EXCEPT ![id].color = "none"]
    /\ lastOp' = Op("handleColorChange", id, NoPos)
    /\ label' = Mounted(label, nodes, nodes')
    /\ LiveArraysTracked
    /\ UNCHANGED <<currentTool, editingNodeId, selectedNodes, now, resizeState,
                   cap>>

\* custom-node.tsx:282-285 with updateNodeData (263-271)   a button of the
\* open border picker
HandleBorderChange(id, borderStyle) ==
    /\ id \in NodeIds(nodes)
    /\ PopupShown(id)
    /\ popup[id].border
    /\ CanSave
    /\ nodes' = WithData(nodes, id, [borderStyle |-> borderStyle])
    /\ edges' = edges
    /\ SaveToHistory
    /\ popup' = [popup EXCEPT ![id].border = FALSE]
    /\ lastOp' = Op("handleBorderChange", id, NoPos)
    /\ label' = Mounted(label, nodes, nodes')
    /\ LiveArraysTracked
    /\ UNCHANGED <<currentTool, editingNodeId, selectedNodes, now, resizeState,
                   cap>>

\* part_003:75-78   a right click on the node opens its context menu
HandleContextMenu(id) ==
    /\ id \in NodeIds(nodes)
    /\ popup' = [popup EXCEPT ![id].menu = TRUE]
    /\ lastOp' = Op("handleContextMenu", id, NoPos)
    /\ UNCHANGED <<currentTool, nodes, edges, history, historyIndex,
                   editingNodeId, selectedNodes, now, label, resizeState, cap,
                   liveArrays>>

\* part_003:80-82   onClose, called by the menu's mousedown-outside and
\* Escape listeners (part_000:139-159)
CloseContextMenu(id) ==
    /\ id \in NodeIds(nodes)
    /\ popup[id].menu
    /\ popup' = [popup EXCEPT ![id].menu = FALSE]
    /\ lastOp' = Op("closeContextMenu", id, NoPos)
    /\ UNCHANGED <<currentTool, nodes, edges, history, historyIndex,
                   editingNodeId, selectedNodes, now, label, resizeState, cap,
                   liveArrays>>

\* part_003:84-92   onUpdateNode, called by the menu's swatches and border
\* buttons (part_000:179, 197, 212, 219); the menu stays open
OnUpdateNode(id, updates) ==
    /\ id \in NodeIds(nodes)
    /\ popup[id].menu
    /\ CanSave
    /\ nodes' = WithData(nodes, id, updates)
    /\ edges' = edges
    /\ SaveToHistory
    /\ popup' = popup
    /\ lastOp' = Op("onUpdateNode", id, NoPos)
    /\ label' = Mounted(label, nodes, nodes')
    /\ LiveArraysTracked
    /\ UNCHANGED <<currentTool, editingNodeId, selectedNodes, now, resizeState,
                   cap>>

\* ------------------------------------------------------------ transitions
Clock == now..cap.clock

\* The handlers that edit the document and commit, with the toolbar;
\* `toolbar` is the set of tools the toolbar offers.
EditStep(toolbar) ==
    \/ \E tool \in toolbar : SetCurrentTool(tool)
    \/ \E t \in Clock, pos \in ClickPositions :
          (currentTool = "select" \/ Len(nodes) < MaxNodes)
          /\ OnPaneClick(t, pos)
    \/ \E t \in Clock, s \in NodeIds(nodes), d \in NodeIds(nodes) :
          s # d /\ OnConnect(t, s, d)
    \/ \E id \in NodeIds(nodes) : OnNodeClick(id)
    \/ \E id \in EdgeIds(edges) : OnEdgeClick(id)
    \/ OnNodeDragStop
    \/ \E id \in NodeIds(nodes) : HandleDelete(id)
    \/ \E id \in NodeIds(nodes) : ContextMenuDelete(id)
    \/ \E id \in 1..(MaxClock + 1) : DeleteNode(id)

\* The rendering layer's change-lists.
ChangeStep ==
    \/ \E id \in NodeIds(nodes), pos \in DragPositions : OnNodesChange(id, pos)
    \/ \E id \in EdgeIds(edges) : OnEdgesChange(id)

\* The toolbar's undo and redo.
HistoryStep ==
    \/ Undo
    \/ Redo

\* The handlers that write the selection and the text-editing target.
UiStep ==
    \/ \E ids \in SUBSET NodeIds(nodes) : OnSelectionChange(ids)
    \/ \E id \in NodeIds(nodes) : HandleDoubleClick(id)

\* Every document and history handler, under a toolbar that offers the
\* select, eraser and rectangle tools.
Next == EditStep({"select", "eraser", "rectangle"}) \/ ChangeStep \/ HistoryStep

Spec == Init /\ [][Next]_vars

\* The committing handlers under the whole toolbar, with undo and redo.
NextTools == EditStep(Tools) \/ HistoryStep

SpecTools == Init /\ [][NextTools]_vars

\* The handlers that write the store, with the selection and the
\* text-editing target, under a toolbar that offers the select and rectangle
\* tools.
NextUi == EditStep({"select", "rectangle"}) \/ ChangeStep \/ UiStep

SpecUi == Init /\ [][NextUi]_vars

\* Node creation, connection and the store's deleteNode alone, up to
\* MaxNodesDelete nodes.
NextDelete ==
    \/ \E tool \in {"select", "rectangle", "circle"} : SetCurrentTool(tool)
    \/ \E t \in Clock, pos \in ClickPositions :
          (currentTool = "select" \/ Len(nodes) < MaxNodesDelete)
          /\ OnPaneClick(t, pos)
    \/ \E t \in Clock, s \in NodeIds(nodes), d \in NodeIds(nodes) :
          s # d /\ OnConnect(t, s, d)
    \/ \E id \in 1..(MaxClock + 1) : DeleteNode(id)

SpecDelete == Init /\ [][NextDelete]_vars

\* The text-editing session of a node.
TextStep ==
    \/ \E id \in NodeIds(nodes) : HandleDoubleClick(id)
    \/ \E id \in NodeIds(nodes), text \in Labels : HandleTextChange(id, text)
    \/ \E id \in NodeIds(nodes) : HandleTextSubmit(id)
    \/ \E id \in NodeIds(nodes) : HandleTextSubmitFirst(id)
    \/ \E id \in NodeIds(nodes) : HandleKeyDownEscape(id)

\* Creation of rectangles and text editing.
NextText ==
    \/ \E tool \in {"select", "rectangle"} : SetCurrentTool(tool)
    \/ \E t \in Clock, pos \in ClickPositions :
          (currentTool = "select" \/ Len(nodes) < MaxNodes)
          /\ OnPaneClick(t, pos)
    \/ TextStep

SpecText == Init /\ [][NextText]_vars

\* Creation of rectangles, their text editing, and undo and redo.
NextTextHistory ==
    \/ \E tool \in {"select", "rectangle"} : SetCurrentTool(tool)
    \/ \E t \in Clock, pos \in ClickPositions :
          (currentTool = "select" \/ Len(nodes) < MaxNodes)
          /\ OnPaneClick(t, pos)
    \/ \E id \in NodeIds(nodes) : HandleDoubleClick(id)
    \/ \E id \in NodeIds(nodes), text \in Labels : HandleTextChange(id, text)
    \/ \E id \in NodeIds(nodes) : HandleTextSubmit(id)
    \/ \E id \in NodeIds(nodes) : HandleKeyDownEscape(id)
    \/ HistoryStep

SpecTextHistory == Init /\ [][NextTextHistory]_vars

\* The resize gesture of both node variants.
ResizeStep ==
    \/ \E id \in NodeIds(nodes), direction \in Directions :
          HandleResizeMouseDown(id, direction)
    \/ \E delta \in Deltas : HandleMouseMove(delta)
    \/ HandleMouseUp
    \/ \E id \in NodeIds(nodes), handle \in Directions :
          HandleResizeStart(id, handle)
    \/ \E delta \in Deltas : HandleResizeMove(delta)
    \/ HandleResizeEnd

\* Creation of rectangles, circles and labels, selection and resize; the
\* pointer being held by a gesture, no other handler runs until it ends.
NextResize ==
    \/ /\ resizeState = NoResize
       /\ \/ \E tool \in {"select", "rectangle", "circle", "label"} :
                SetCurrentTool(tool)
          \/ \E t \in Clock, pos \in ClickPositions :
                (currentTool = "select" \/ Len(nodes) < MaxNodesResize)
                /\ OnPaneClick(t, pos)
          \/ \E ids \in SUBSET NodeIds(nodes) : OnSelectionChange(ids)
    \/ ResizeStep

SpecResize == Init /\ [][NextResize]_vars

\* The initial state, explored up to two edges.
InitEraser ==
    /\ currentTool = "select"
    /\ nodes = <<>>
    /\ edges = <<>>
    /\ history = <<>>
    /\ historyIndex = -1
    /\ editingNodeId = 0
    /\ selectedNodes = {}
    /\ now = 1
    /\ label = [id \in Ids |-> ""]
    /\ resizeState = NoResize
    /\ cap = [hist |-> MaxHistEraser, edges |-> MaxEdgesEraser,
              clock |-> MaxClockEraser]
    /\ popup = [id \in Ids |-> Closed]
    /\ liveArrays = [nodes |-> 0, edges |-> 0]
    /\ lastOp = [name |-> "init", id |-> 0, pos |-> NoPos,
                 hlen |-> 0, hidx |-> -1]

\* Node creation, connection and the canvas clicks on nodes and edges.
NextEraser ==
    \/ \E tool \in {"select", "eraser", "rectangle"} : SetCurrentTool(tool)
    \/ \E t \in Clock, pos \in ClickPositions :
          (currentTool = "select" \/ Len(nodes) < MaxNodes)
          /\ OnPaneClick(t, pos)
    \/ \E t \in Clock, s \in NodeIds(nodes), d \in NodeIds(nodes) :
          s # d /\ OnConnect(t, s, d)
    \/ \E id \in NodeIds(nodes) : OnNodeClick(id)
    \/ \E id \in EdgeIds(edges) : OnEdgeClick(id)

SpecEraser == InitEraser /\ [][NextEraser]_vars

\* The style choices of the popover and of the context menu.
StyleStep ==
    \/ \E id \in NodeIds(nodes) : HandleSingleClick(id)
    \/ \E id \in NodeIds(nodes) : HandleClickOutside(id)
    \/ \E id \in NodeIds(nodes), type \in {"background", "text"} :
          ToggleColorPicker(id, type)
    \/ \E id \in NodeIds(nodes) : ToggleBorderPicker(id)
    \/ \E id \in NodeIds(nodes), color \in BackgroundColors :
          HandleColorChange(id, color, "background")
    \/ \E id \in NodeIds(nodes), color \in TextColors :
          HandleColorChange(id, color, "text")
    \/ \E id \in NodeIds(nodes), borderStyle \in BorderStyles :
          HandleBorderChange(id, borderStyle)
    \/ \E id \in NodeIds(nodes) : HandleContextMenu(id)
    \/ \E id \in NodeIds(nodes) : CloseContextMenu(id)
    \/ \E id \in NodeIds(nodes), updates \in MenuUpdates :
          OnUpdateNode(id, updates)

\* The initial state, explored up to MaxHistStyle history entries.
InitStyle ==
    /\ currentTool = "select"
    /\ nodes = <<>>
    /\ edges = <<>>
    /\ history = <<>>
    /\ historyIndex = -1
    /\ editingNodeId = 0
    /\ selectedNodes = {}
    /\ now = 1
    /\ label = [id \in Ids |-> ""]
    /\ resizeState = NoResize
    /\ cap = [hist |-> MaxHistStyle, edges |-> MaxEdges, clock |-> MaxClock]
    /\ popup = [id \in Ids |-> Closed]
    /\ liveArrays = [nodes |-> 0, edges |-> 0]
    /\ lastOp = [name |-> "init", id |-> 0, pos |-> NoPos,
                 hlen |-> 0, hidx |-> -1]

\* Creation of rectangles and the style choices.
NextStyle ==
    \/ \E tool \in {"select", "rectangle"} : SetCurrentTool(tool)
    \/ \E t \in Clock, pos \in ClickPositions :
          (currentTool = "select" \/ Len(nodes) < MaxNodes)
          /\ OnPaneClick(t, pos)
    \/ StyleStep

SpecStyle == InitStyle /\ [][NextStyle]_vars

\* Creation of a rectangle, selection, and the three transient modes of a
\* node: text editing, the popover and the resize gesture of the popover
\* variant; the pointer being held by a gesture, no pointer handler runs
\* until it ends.
NextModes ==
    \/ /\ resizeState = NoResize
       /\ \/ \E tool \in {"select", "rectangle"} : SetCurrentTool(tool)
          \/ \E t \in Clock, pos \in ClickPositions :
                (currentTool = "select" \/ Len(nodes) < MaxNodesResize)
                /\ OnPaneClick(t, pos)
          \/ \E ids \in SUBSET NodeIds(nodes) : OnSelectionChange(ids)
          \/ \E id \in NodeIds(nodes) : HandleDoubleClick(id)
          \/ \E id \in NodeIds(nodes) : HandleSingleClick(id)
          \/ \E id \in NodeIds(nodes) : HandleClickOutside(id)
          \/ \E id \in NodeIds(nodes), direction \in Directions :
                HandleResizeMouseDown(id, direction)
    \/ \E id \in NodeIds(nodes) : HandleKeyDownEscape(id)
    \/ \E delta \in Deltas : HandleMouseMove(delta)
    \/ HandleMouseUp

SpecModes == Init /\ [][NextModes]_vars

\* Creation of rectangles, connection, selection, and the three writes of a
\* node component: the text commit, the background colour of the popover
\* and the resize gesture of the popover variant on the top-left handle,
\* dragged inward.  The pointer being held by a
\* gesture, no pointer handler runs until it ends; the keyboard still
\* reaches the focused textarea.
NextWrites ==
    \/ /\ resizeState = NoResize
       /\ \/ \E tool \in {"select", "rectangle"} : SetCurrentTool(tool)
          \/ \E t \in Clock, pos \in ClickPositions :
                (currentTool = "select" \/ Len(nodes) < MaxNodes)
                /\ OnPaneClick(t, pos)
          \/ \E t \in Clock, s \in NodeIds(nodes), d \in NodeIds(nodes) :
                s # d /\ OnConnect(t, s, d)
          \/ \E ids \in SUBSET NodeIds(nodes) : OnSelectionChange(ids)
          \/ \E id \in NodeIds(nodes) : HandleDoubleClick(id)
          \/ \E id \in NodeIds(nodes) : HandleSingleClick(id)
          \/ \E id \in NodeIds(nodes) : ToggleColorPicker(id, "background")
          \/ \E id \in NodeIds(nodes), color \in BackgroundColors :
                HandleColorChange(id, color, "background")
          \/ \E id \in NodeIds(nodes), direction \in {"top-left"} :
                HandleResizeMouseDown(id, direction)
    \/ \E id \in NodeIds(nodes), text \in Labels : HandleTextChange(id, text)
    \/ \E id \in NodeIds(nodes) : HandleTextSubmit(id)
    \/ \E delta \in {<<30, 30>>} : HandleMouseMove(delta)
    \/ HandleMouseUp

SpecWrites == Init /\ [][NextWrites]_vars

\* ======================================================== checked properties
\* The handlers that call saveToHistory(): always, or past an early return.
AlwaysCommits ==
    {"deleteNode", "onConnect", "onNodeDragStop", "handleDelete",
     "contextMenuDelete"}
CommitsPastReturn == {"onPaneClick", "onNodeClick", "onEdgeClick"}

\* The handler recorded in `op` ran saveToHistory().
Saved(op) ==
    \/ op.name \in AlwaysCommits
    \/ op.name \in CommitsPastReturn /\ op.id # 0

\* The live document, as a snapshot.
Live == [nodes |-> nodes, edges |-> edges]

\* C1: after every handler the history is either empty with cursor -1, or
\* non-empty with 0 <= cursor < length(entries).
C1_CursorInvariant ==
    \/ history = <<>> /\ historyIndex = -1
    \/ history # <<>> /\ 0 <= historyIndex /\ historyIndex < Len(history)

\* C1 witness: two undos after three commits leave the cursor at the first
\* of three entries.
C1_Witness ==
    /\ lastOp.name = "undo"
    /\ lastOp.hidx = 1
    /\ historyIndex = 0
    /\ Len(history) = 3

\* C2 (as claimed): every live edge has a live source and a live target.
C2_EdgesReferenceLiveNodes ==
    \A i \in 1..Len(edges) :
        /\ edges[i].source \in NodeIds(nodes)
        /\ edges[i].target \in NodeIds(nodes)

\* The result of undo() immediately followed by redo().
UndoThenRedo == RedoOf(UndoOf(Store))

\* C3 (as claimed): wherever undo is effective, undo() then redo() leaves
\* the live nodes and edges as they were before the undo().
C3_UndoRedoRestoresLive ==
    historyIndex > 0 =>
        /\ UndoThenRedo.nodes = nodes
        /\ UndoThenRedo.edges = edges

\* C3 (amended): wherever undo is effective and the live document equals
\* the entry at the cursor, undo() then redo() leaves the live nodes and
\* edges, and the cursor, as they were before the undo().
C3_UndoRedoRestoresCommitted ==
    (historyIndex > 0 /\ Live = history[historyIndex + 1]) =>
        /\ UndoThenRedo.nodes = nodes
        /\ UndoThenRedo.edges = edges
        /\ UndoThenRedo.historyIndex = historyIndex

\* C3 witness: undo is effective, the live document is the entry at the
\* cursor, and undo() alone shows another document.
C3_Witness ==
    /\ historyIndex > 0
    /\ Live = history[historyIndex + 1]
    /\ UndoOf(Store).nodes # nodes
    /\ UndoThenRedo.nodes = nodes

\* C4: a commit keeps entries[0..cursor], drops every later entry, appends
\* the live document as the new last entry and leaves redo() a no-op.
C4_CommitTruncatesRedoBranch ==
    [][Saved(lastOp') =>
          /\ Len(history') = historyIndex + 2
          /\ \A i \in 1..(historyIndex + 1) : history'[i] = history[i]
          /\ history'[Len(history')] = [nodes |-> nodes', edges |-> edges']
          /\ historyIndex' = Len(history') - 1
          /\ RedoOf(Store') = Store']_vars

\* C4 witness: entries [S0,S1,S2] with the cursor undone to 0, then a commit:
\* two entries, cursor 1.
C4_Witness ==
    /\ Saved(lastOp)
    /\ lastOp.hlen = 3
    /\ lastOp.hidx = 0
    /\ Len(history) = 2
    /\ historyIndex = 1

\* `after` is `before` restricted to the indexes in `keep`, in the same order.
IsRestriction(after, before, keep) ==
    /\ Len(after) = Cardinality(keep)
    /\ \A k \in keep : after[Cardinality({m \in keep : m <= k})] = before[k]

\* C5: deleteNode(id) removes the node with that id and every edge whose
\* source or target is id, keeps every other node and edge as it was and in
\* the same order, and with the cursor at the end grows the history by one.
C5_DeleteNodeCascades ==
    [][lastOp'.name = "deleteNode" =>
          LET id == lastOp'.id
          IN  /\ IsRestriction(nodes', nodes,
                    {i \in 1..Len(nodes) : nodes[i].id # id})
              /\ IsRestriction(edges', edges,
                    {i \in 1..Len(edges) :
                        edges[i].source # id /\ edges[i].target # id})
              /\ historyIndex = Len(history) - 1 =>
                    Len(history') = Len(history) + 1]_vars

\* C5 witness: the entry before the last held two nodes and one edge between
\* them; deleteNode of the edge's source left the other node and no edge.
C5_Witness ==
    /\ lastOp.name = "deleteNode"
    /\ Len(history) = lastOp.hlen + 1
    /\ Len(history) >= 2
    /\ LET before == history[Len(history) - 1]
       IN  /\ Len(before.nodes) = 2
           /\ Len(before.edges) = 1
           /\ before.edges[1].source = lastOp.id
           /\ before.nodes[1].id = lastOp.id
           /\ nodes = <<before.nodes[2]>>
    /\ edges = <<>>

\* C5, a second case: deleteNode of the first of three nodes leaves the
\* other two, which differ, in the order they had.
C5_WitnessOrder ==
    /\ lastOp.name = "deleteNode"
    /\ Len(history) >= 2
    /\ LET before == history[Len(history) - 1]
       IN  /\ Len(before.nodes) = 3
           /\ before.nodes[1].id = lastOp.id
           /\ nodes = <<before.nodes[2], before.nodes[3]>>
           /\ before.nodes[2] # before.nodes[3]

\* C6: a handler that ends with saveToHistory() leaves exactly one entry past
\* the cursor it started from, the cursor on that last entry, and the entry
\* equal to the live document the handler's own writes produced.
C6_CommitSnapshotsLiveDocument ==
    Saved(lastOp) =>
        /\ Len(history) = lastOp.hidx + 2
        /\ historyIndex = Len(history) - 1
        /\ history[Len(history)] = Live

\* C6 witness: a pane click created a node and committed; the node is in the
\* new last entry.
C6_Witness ==
    /\ lastOp.name = "onPaneClick"
    /\ Saved(lastOp)
    /\ Len(nodes) = 2
    /\ history[Len(history)].nodes = nodes
    /\ history[Len(history) - 1].nodes # nodes

\* C7: an effective undo() moves the cursor back by exactly one, an effective
\* redo() moves it forward by exactly one, and either leaves the live
\* document equal to the entry at the new cursor.
C7_UndoRedoRestoreEntryAtCursor ==
    /\ (lastOp.name = "undo" /\ lastOp.hidx > 0) =>
           /\ historyIndex = lastOp.hidx - 1
           /\ Live = history[historyIndex + 1]
    /\ (lastOp.name = "redo" /\ lastOp.hidx < lastOp.hlen - 1) =>
           /\ historyIndex = lastOp.hidx + 1
           /\ Live = history[historyIndex + 1]

\* C7 witness: an effective redo() onto an entry that differs from the one
\* before it.
C7_Witness ==
    /\ lastOp.name = "redo"
    /\ lastOp.hidx < lastOp.hlen - 1
    /\ historyIndex = lastOp.hidx + 1
    /\ history[historyIndex + 1] # history[historyIndex]

\* C8: undo() at cursor <= 0 and redo() at cursor >= length - 1 change
\* neither nodes, edges, the history entries nor the cursor.
C8_UndoRedoAtTheEndsAreNoOps ==
    [][/\ (lastOp'.name = "undo" /\ historyIndex <= 0) =>
              UNCHANGED <<nodes, edges, history, historyIndex>>
       /\ (lastOp'.name = "redo" /\ historyIndex >= Len(history) - 1) =>
              UNCHANGED <<nodes, edges, history, historyIndex>>]_vars

\* C8 witness: undo() ran at cursor 0 over a live document that differs from
\* the only earlier entry, and the document is still live.
C8_Witness ==
    /\ lastOp.name = "undo"
    /\ lastOp.hidx = 0
    /\ historyIndex = 0
    /\ Live # history[1]

\* C9: setCurrentTool, the change-list handlers (setNodes / setEdges alone),
\* setEditingNodeId and setSelectedNodes leave the history entries and the
\* cursor as they were, and the entries change only in a handler that calls
\* saveToHistory().
C9_OnlySaveToHistoryGrowsTheLog ==
    [][/\ lastOp'.name \in {"setCurrentTool", "onNodesChange", "onEdgesChange",
                            "handleDoubleClick", "onSelectionChange"} =>
              UNCHANGED <<history, historyIndex>>
       /\ history' # history => Saved(lastOp')]_vars

\* C9 witness: a selection and a text-editing target were set and a drag moved
\* a node, over a history of two entries that the drag did not reach.
C9_Witness ==
    /\ lastOp.name = "handleDoubleClick"
    /\ editingNodeId # 0
    /\ selectedNodes # {}
    /\ Len(history) = 2
    /\ historyIndex = 1
    /\ Live # history[2]

\* C10: with the rectangle, circle or label tool a pane click appends exactly
\* one node: of the tool's type, at the click position, with an empty label
\* and size 120x80 (100x40 for a label); it commits one entry holding the new
\* document and sets the tool to select.
C10_PaneClickCreatesShape ==
    [][(lastOp'.name = "onPaneClick"
          /\ currentTool \in {"rectangle", "circle", "label"}) =>
          /\ Len(nodes') = Len(nodes) + 1
          /\ SubSeq(nodes', 1, Len(nodes)) = nodes
          /\ LET n == nodes'[Len(nodes')]
             IN  /\ n.type = "custom"
                 /\ n.data.nodeType = currentTool
                 /\ n.position = lastOp'.pos
                 /\ n.position \in ClickPositions
                 /\ n.data.label = ""
                 /\ n.data.width = (IF currentTool = "label" THEN 100 ELSE 120)
                 /\ n.data.height = (IF currentTool = "label" THEN 40 ELSE 80)
          /\ edges' = edges
          /\ Len(history') = historyIndex + 2
          /\ history'[Len(history')] = [nodes |-> nodes', edges |-> edges']
          /\ currentTool' = "select"]_vars

\* C10 witness: from the empty document and history, the rectangle tool and a
\* click at (50,60): one 120x80 rectangle there, tool select, one entry.
C10_Witness ==
    /\ lastOp.name = "onPaneClick"
    /\ lastOp.hlen = 0
    /\ Len(nodes) = 1
    /\ nodes[1].position = <<50, 60>>
    /\ nodes[1].data = [label |-> "", nodeType |-> "rectangle",
                        width |-> 120, height |-> 80]
    /\ edges = <<>>
    /\ currentTool = "select"
    /\ Len(history) = 1
    /\ historyIndex = 0

\* C11 (as claimed): with the eraser tool a click on the empty canvas leaves
\* nodes, edges, the history entries, the cursor and the tool as they were.
C11_EraserPaneClickIsNoOp ==
    [][(lastOp'.name = "onPaneClick" /\ currentTool = "eraser") =>
          UNCHANGED <<nodes, edges, history, historyIndex, currentTool>>]_vars

\* The canvas events: pane click, node click, edge click, drag stop, connect.
CanvasEvents ==
    {"onPaneClick", "onNodeClick", "onEdgeClick", "onNodeDragStop", "onConnect"}

\* C12 (as claimed): while the tool is select or eraser no canvas event
\* changes the tool, and a change of the tool away from select or eraser is
\* made by setCurrentTool.
C12_SelectAndEraserPersist ==
    [][(currentTool \in {"select", "eraser"}) =>
          /\ lastOp'.name \in CanvasEvents => currentTool' = currentTool
          /\ currentTool' # currentTool => lastOp'.name = "setCurrentTool"]_vars

\* C13 (as claimed): every live node has type 'custom' and a nodeType among
\* rectangle, circle and label.
C13_NodeTypesAreShapes ==
    \A i \in 1..Len(nodes) :
        /\ nodes[i].type = "custom"
        /\ nodes[i].data.nodeType \in {"rectangle", "circle", "label"}

\* C14: with the eraser a click on a node removes the node with that id and
\* every edge whose source or target is that id, keeps the rest in order,
\* leaves exactly one entry past the cursor, holding the post-delete document,
\* and leaves the tool as eraser; with any other tool the canvas's node click
\* changes neither nodes, edges, the history entries nor the cursor.
C14_EraserNodeClickCascades ==
    [][lastOp'.name = "onNodeClick" =>
          IF currentTool = "eraser"
          THEN LET id == lastOp'.id
               IN  /\ id \notin NodeIds(nodes')
                   /\ IsRestriction(nodes', nodes,
                         {i \in 1..Len(nodes) : nodes[i].id # id})
                   /\ \A i \in 1..Len(edges') :
                         edges'[i].source # id /\ edges'[i].target # id
                   /\ IsRestriction(edges', edges,
                         {i \in 1..Len(edges) :
                             edges[i].source # id /\ edges[i].target # id})
                   /\ Len(history') = historyIndex + 2
                   /\ historyIndex = Len(history) - 1 =>
                         Len(history') = Len(history) + 1
                   /\ history'[Len(history')] =
                         [nodes |-> nodes', edges |-> edges']
                   /\ currentTool' = "eraser"
          ELSE UNCHANGED <<nodes, edges, history, historyIndex>>]_vars

\* C14 witness: two nodes and an edge between them were committed; an eraser
\* click on the edge's target left the other node, no edge, and the eraser.
C14_Witness ==
    /\ lastOp.name = "onNodeClick"
    /\ lastOp.id # 0
    /\ currentTool = "eraser"
    /\ Len(history) = lastOp.hlen + 1
    /\ Len(history) >= 2
    /\ LET before == history[Len(history) - 1]
       IN  /\ Len(before.nodes) = 2
           /\ Len(before.edges) = 1
           /\ before.edges[1].target = lastOp.id
           /\ before.nodes[2].id = lastOp.id
           /\ nodes = <<before.nodes[1]>>
    /\ edges = <<>>

\* C14, the other tools: a node click with the select tool ran over a
\* document of two nodes and an edge and left it whole.
C14_WitnessSelect ==
    /\ lastOp.name = "onNodeClick"
    /\ lastOp.id = 0
    /\ currentTool = "select"
    /\ Len(nodes) = 2
    /\ Len(edges) = 1

\* C15: with the eraser a click on an edge removes the edge with that id,
\* keeps every other edge as it was and in order, leaves the nodes
\* as they were and leaves exactly one entry past the cursor, holding the new
\* document; with any other tool an edge click changes nothing in the store.
C15_EraserEdgeClickRemovesEdge ==
    [][lastOp'.name = "onEdgeClick" =>
          IF currentTool = "eraser"
          THEN LET id == lastOp'.id
               IN  /\ id \notin EdgeIds(edges')
                   /\ Len(edges') < Len(edges)
                   /\ IsRestriction(edges', edges,
                         {i \in 1..Len(edges) : edges[i].id # id})
                   /\ nodes' = nodes
                   /\ Len(history') = historyIndex + 2
                   /\ historyIndex = Len(history) - 1 =>
                         Len(history') = Len(history) + 1
                   /\ history'[Len(history')] =
                         [nodes |-> nodes', edges |-> edges']
          ELSE UNCHANGED <<currentTool, nodes, edges, history, historyIndex,
                           editingNodeId, selectedNodes>>]_vars

\* C15 witness: of two edges with different ids the eraser removed the first;
\* the second is the only edge left and the two nodes are as they were.
C15_Witness ==
    /\ lastOp.name = "onEdgeClick"
    /\ lastOp.id # 0
    /\ Len(history) = lastOp.hlen + 1
    /\ Len(history) >= 2
    /\ LET before == history[Len(history) - 1]
       IN  /\ Len(before.edges) = 2
           /\ before.edges[1].id = lastOp.id
           /\ before.edges[2].id # lastOp.id
           /\ edges = <<before.edges[2]>>
           /\ nodes = before.nodes
           /\ Len(nodes) = 2

\* The handlers of a resize gesture's pointer-moves and of its pointer-up.
ResizeMoves == {"handleMouseMove", "handleResizeMove"}
ResizeEnds == {"handleMouseUp", "handleResizeEnd"}

\* C16 (as claimed): no pointer-move of a resize gesture appends a snapshot,
\* and the pointer-up appends exactly one.
C16_ResizeCommitsOnPointerUp ==
    [][/\ lastOp'.name \in ResizeMoves => UNCHANGED <<history, historyIndex>>
       /\ lastOp'.name \in ResizeEnds => Len(history') = Len(history) + 1]_vars

\* The node of `ns` that the component with this id shows is no circle, or a
\* circle of equal width and height.
CircleIsSquare(ns, id) ==
    (id \in NodeIds(ns) /\ DataOf(ns, id).nodeType = "circle") =>
        DataOf(ns, id).width = DataOf(ns, id).height

\* C17 (as claimed): when a resize gesture on a circle ends, after any number
\* of pointer-moves, the stored width and height of the circle are equal.
C17_CircleSquareAfterAnyResize ==
    [][lastOp'.name \in ResizeEnds =>
          CircleIsSquare(nodes', resizeState.id)]_vars

\* C17 (amended): after every pointer-move of a resize gesture on a circle,
\* and when a gesture with at least one pointer-move ends, the stored width
\* and height of the circle are equal.
C17_CircleSquareAfterResizeMove ==
    [][(\/ lastOp'.name \in ResizeMoves
        \/ lastOp'.name \in ResizeEnds /\ resizeState.moves >= 1) =>
          CircleIsSquare(nodes', resizeState.id)]_vars

\* C17 witness: a circle created 120x80 was resized by one pointer-move and
\* the gesture ended; its sides are equal.
C17_Witness ==
    /\ lastOp.name \in ResizeEnds
    /\ Len(history) = 2
    /\ history[1].nodes[1].data.nodeType = "circle"
    /\ history[1].nodes[1].data.width = 120
    /\ history[1].nodes[1].data.height = 80
    /\ Len(nodes) = 1
    /\ nodes[1].data.width = nodes[1].data.height

\* The minimum floor of the variant a gesture runs in.
MinWidth(variant) == IF variant = "contextMenu" THEN 50 ELSE 60
MinHeight(variant) == IF variant = "contextMenu" THEN 30 ELSE 40

\* C18 (as claimed): every size a pointer-move writes has width >= 60 and
\* height >= 40 (50 and 30 in the context-menu variant), whatever the type of
\* the node.
C18_ResizeKeepsBothFloors ==
    [][lastOp'.name \in ResizeMoves =>
          \A i \in 1..Len(nodes') :
              nodes'[i].id = resizeState.id =>
                  /\ nodes'[i].data.width >= MinWidth(resizeState.variant)
                  /\ nodes'[i].data.height >= MinHeight(resizeState.variant)]_vars

\* C18 (amended): every size a pointer-move writes for a node that is no
\* circle has width >= 60 and height >= 40 (50 and 30 in the context-menu
\* variant); for a circle it has both sides equal and at least the height
\* floor, 40 (30).
C18_ResizeKeepsFloorsButCircleWidth ==
    [][lastOp'.name \in ResizeMoves =>
          \A i \in 1..Len(nodes') :
              nodes'[i].id = resizeState.id =>
                  IF DataOf(nodes', resizeState.id).nodeType = "circle"
                  THEN /\ nodes'[i].data.width = nodes'[i].data.height
                       /\ nodes'[i].data.height >=
                              MinHeight(resizeState.variant)
                  ELSE /\ nodes'[i].data.width >=
                              MinWidth(resizeState.variant)
                       /\ nodes'[i].data.height >=
                              MinHeight(resizeState.variant)]_vars

\* C18 witness: a pointer-move that shrinks a 120x80 rectangle by (100,100)
\* wrote the floor, 60x40.
C18_Witness ==
    /\ lastOp.name = "handleMouseMove"
    /\ Len(history) = 2
    /\ history[1].nodes[1].data.nodeType = "rectangle"
    /\ history[1].nodes[1].data.width = 120
    /\ Len(nodes) = 1
    /\ nodes[1].data.width = 60
    /\ nodes[1].data.height = 40

\* C18, the circle: a pointer-move wrote a circle of 40x40, below the width
\* floor.
C18_WitnessCircle ==
    /\ lastOp.name = "handleMouseMove"
    /\ Len(nodes) = 1
    /\ nodes[1].data.nodeType = "circle"
    /\ nodes[1].data.width = 40
    /\ nodes[1].data.height = 40

\* The handlers that commit a text edit, in the file's two variants.
TextCommits == {"handleTextSubmit", "handleTextSubmitFirst"}

\* C19 (as claimed): a text commit on the node being edited writes the buffer
\* into the label of that node and leaves every other node and the edges as
\* they were, clears editingNodeId, and leaves exactly one entry past the
\* cursor, which holds the document with the new label.
C19_TextCommitWritesAndCommits ==
    [][lastOp'.name \in TextCommits =>
          LET id == lastOp'.id
          IN  /\ editingNodeId = id
              /\ Len(nodes') = Len(nodes)
              /\ \A i \in 1..Len(nodes) :
                    nodes'[i] = IF nodes[i].id = id
                                THEN [nodes[i] EXCEPT !.data.label = label[id]]
                                ELSE nodes[i]
              /\ edges' = edges
              /\ editingNodeId' = 0
              /\ Len(history') = historyIndex + 2
              /\ history'[Len(history')] = [nodes |-> nodes', edges |-> edges']
              /\ LabelOf(history'[Len(history')].nodes, id) = label[id]]_vars

\* C20: Escape in the textarea of the node being edited resets that node's
\* buffer to the label the store holds for it, keeps the other buffers, sets
\* editingNodeId to null and leaves nodes, edges, the history entries and the
\* cursor as they were.
C20_EscapeDiscardsBuffer ==
    [][lastOp'.name = "handleKeyDownEscape" =>
          LET id == lastOp'.id
          IN  /\ editingNodeId = id
              /\ label'[id] = LabelOf(nodes, id)
              /\ \A other \in Ids \ {id} : label'[other] = label[other]
              /\ editingNodeId' = 0
              /\ UNCHANGED <<nodes, edges, history, historyIndex>>]_vars

\* C20 witness: the label "a" was committed for a node (second entry), the
\* node was edited again and Escape pressed: the buffer holds "a", no node is
\* being edited and the history still has two entries.
C20_Witness ==
    /\ lastOp.name = "handleKeyDownEscape"
    /\ lastOp.hlen = 2
    /\ Len(history) = 2
    /\ historyIndex = 1
    /\ Len(nodes) = 1
    /\ nodes[1].data.label = "a"
    /\ history[2].nodes = nodes
    /\ label[nodes[1].id] = "a"
    /\ editingNodeId = 0

\* C21: at most one node is the text-editing one: for any two distinct node
\* ids, the two components never both render as text-editing.
C21_AtMostOneTextEditing ==
    \A a \in Ids, b \in Ids :
        a # b => ~(IsTextEditing(a) /\ IsTextEditing(b))

\* C21 witness: a double click has made a second node the text-editing one
\* while the first, edited before it, still holds its unsubmitted buffer.
C21_Witness ==
    /\ lastOp.name = "handleDoubleClick"
    /\ IsTextEditing(lastOp.id)
    /\ \E a \in NodeIds(nodes) :
          /\ a # lastOp.id
          /\ label[a] # LabelOf(nodes, a)
          /\ ~IsTextEditing(a)

\* The handlers behind a style choice: the popover's swatches and border
\* buttons, and the context menu's onUpdateNode.
StyleChoices == {"handleColorChange", "handleBorderChange", "onUpdateNode"}

\* The data fields a style choice may name.
StyleFields == {"backgroundColor", "textColor", "borderStyle"}

\* `after` is `before` with the one field f set, every other field as it was.
OneFieldSet(before, after, f) ==
    /\ DOMAIN after = (DOMAIN before) \cup {f}
    /\ \A k \in (DOMAIN before) \ {f} : after[k] = before[k]

\* C22: each style choice (background swatch, text-colour swatch, border
\* style), from the popover or through the context menu's onUpdateNode,
\* writes exactly the chosen field into the target node's data, leaves every
\* other node and the edges as they were, and appends exactly one history
\* entry, the snapshot of the result.
C22_StyleChoiceWritesOneField ==
    [][(lastOp'.name \in StyleChoices) =>
          /\ Len(nodes') = Len(nodes)
          /\ \E f \in StyleFields :
                /\ lastOp'.name = "handleBorderChange" => f = "borderStyle"
                /\ lastOp'.name = "handleColorChange" =>
                      f = IF popup[lastOp'.id].color = "background"
                          THEN "backgroundColor" ELSE "textColor"
                /\ \A i \in 1..Len(nodes) :
                      IF nodes[i].id = lastOp'.id
                      THEN /\ OneFieldSet(nodes[i].data, nodes'[i].data, f)
                           /\ nodes'[i].data[f] \in
                                 BackgroundColors \cup TextColors
                                 \cup BorderStyles
                                 \cup {u[f] : u \in {v \in MenuUpdates :
                                                       f \in DOMAIN v}}
                           /\ [nodes'[i] EXCEPT !.data = nodes[i].data]
                                 = nodes[i]
                      ELSE nodes'[i] = nodes[i]
          /\ edges' = edges
          /\ Len(history') = Len(history) + 1
          /\ historyIndex' = historyIndex + 1
          /\ SubSeq(history', 1, Len(history)) = history
          /\ history'[Len(history')] = [nodes |-> nodes', edges |-> edges']
    ]_vars

\* C22 witness: a popover swatch has just set the background of a node whose
\* text colour was set through the context menu, each with its own history
\* entry.
C22_Witness ==
    /\ lastOp.name = "handleColorChange"
    /\ lastOp.id \in NodeIds(nodes)
    /\ LET data == DataOf(nodes, lastOp.id)
       IN  /\ {"backgroundColor", "textColor"} \subseteq DOMAIN data
           /\ data.backgroundColor = "#dbeafe"
           /\ data.textColor = "#ef4444"
    /\ Len(history) = lastOp.hlen + 1
    /\ Len(history) = 3

\* C23: deleteNode(id) always appends exactly one history snapshot, whether
\* or not an edge referenced the node (and whether or not a node carried the
\* id): the log is the entries up to the cursor followed by the one snapshot
\* of the resulting document.
C23_DeleteNodeAlwaysCommits ==
    [][(lastOp'.name = "deleteNode") =>
          /\ Len(history') = historyIndex + 2
          /\ historyIndex' = historyIndex + 1
          /\ SubSeq(history', 1, historyIndex + 1)
                = SubSeq(history, 1, historyIndex + 1)
          /\ history'[Len(history')] = [nodes |-> nodes', edges |-> edges']
    ]_vars

\* C23 witness: deleteNode has removed a live node that no edge referenced,
\* another node stays, and the log has grown by one.
C23_Witness ==
    /\ lastOp.name = "deleteNode"
    /\ Len(history) = lastOp.hlen + 1
    /\ Len(history) >= 2
    /\ LET before == history[Len(history) - 1]
       IN  /\ lastOp.id \in NodeIds(before.nodes)
           /\ WithoutEdgesOf(before.edges, lastOp.id) = before.edges
    /\ nodes # <<>>

C25_PopoverClosesOnDismissal ==
    [][(lastOp'.name \in {"handleClickOutside", "handleColorChange",
                          "handleBorderChange"}) =>
          /\ ~popup'[lastOp'.id].show
          /\ popup'[lastOp'.id].color = "none"
          /\ ~popup'[lastOp'.id].border
    ]_vars

\* C26: the arrays a history snapshot holds are never the arrays the store
\* holds as its live nodes and edges, also right after undo() or redo().
C26_LiveArraysNotInHistory ==
    /\ liveArrays.nodes = 0
    /\ liveArrays.edges = 0

\* C27: in every reachable state the ids of the live nodes are pairwise
\* distinct, and so are the ids of the live edges, whatever non-decreasing
\* readings of the clock the ids were built from.
C27_LiveIdsDistinct ==
    /\ \A i \in 1..Len(nodes), j \in 1..Len(nodes) :
          i # j => nodes[i].id # nodes[j].id
    /\ \A i \in 1..Len(edges), j \in 1..Len(edges) :
          i # j => edges[i].id # edges[j].id

\* C28: the five interactivity flags handed to the rendering layer
\* (nodesDraggable, nodesConnectable, elementsSelectable, panOnDrag,
\* zoomOnScroll) are all true exactly when the current tool is select, and
\* all false with every other tool.
C28_FlagsFollowSelectTool ==
    LET select == (currentTool = "select")
    IN  /\ NodesDraggable <=> select
        /\ NodesConnectable <=> select
        /\ ElementsSelectable <=> select
        /\ PanOnDrag <=> select
        /\ ZoomOnScroll <=> select

\* C28 witness: the eraser has been picked over a document with a node, and
\* every flag is off.
C28_Witness ==
    /\ lastOp.name = "setCurrentTool"
    /\ currentTool = "eraser"
    /\ nodes # <<>>
    /\ ~NodesDraggable /\ ~NodesConnectable /\ ~ElementsSelectable
    /\ ~PanOnDrag /\ ~ZoomOnScroll

\* C29: with the select tool active, a click on the empty canvas does
\* nothing: nodes, edges, history, cursor and tool are unchanged.
C29_SelectPaneClickChangesNothing ==
    [][(lastOp'.name = "onPaneClick" /\ currentTool = "select") =>
          /\ nodes' = nodes
          /\ edges' = edges
          /\ history' = history
          /\ historyIndex' = historyIndex
          /\ currentTool' = "select"
    ]_vars

\* C29 witness: the pane was clicked with the select tool over a document
\* with a node and a history, and the handler returned at its first line.
C29_Witness ==
    /\ lastOp.name = "onPaneClick"
    /\ lastOp.id = 0
    /\ currentTool = "select"
    /\ nodes # <<>>
    /\ Len(history) = lastOp.hlen
    /\ Len(history) >= 2

\* C30: a node's session is never in two transient modes at once: in no
\* reachable state is the same node text-editing and showing its popover,
\* text-editing and resizing, or resizing and showing its popover.
C30_ModesExclusive ==
    \A id \in NodeIds(nodes) :
        /\ ~(IsTextEditing(id) /\ PopupShown(id))
        /\ ~(IsTextEditing(id) /\ Resizing(id))
        /\ ~(Resizing(id) /\ PopupShown(id))

\* C31: a double click on node B while node A is the text-editing one with a
\* modified buffer makes B the text-editing target and by itself leaves the
\* nodes (A's label among them), the edges, the history and the cursor as
\* they were; the label of a node changes in the store only by that node's
\* own text commit.
C31_HandOverLeavesBufferUncommitted ==
    [][/\ (lastOp'.name = "handleDoubleClick") =>
             /\ editingNodeId' = lastOp'.id
             /\ nodes' = nodes
             /\ edges' = edges
             /\ history' = history
             /\ historyIndex' = historyIndex
       /\ \A i \in 1..Min(Len(nodes), Len(nodes')) :
             (/\ nodes'[i].id = nodes[i].id
              /\ nodes'[i].data.label # nodes[i].data.label) =>
                 /\ lastOp'.name \in TextCommits
                 /\ lastOp'.id = nodes[i].id
                 /\ editingNodeId = nodes[i].id
    ]_vars

\* C31 witness: B has just become the text-editing target by a double click
\* while A, edited before it, holds a buffer that differs from its stored
\* label, and the history is as long as before the double click.
C31_Witness ==
    /\ lastOp.name = "handleDoubleClick"
    /\ editingNodeId = lastOp.id
    /\ Len(history) = lastOp.hlen
    /\ historyIndex = lastOp.hidx
    /\ \E a \in NodeIds(nodes) :
          /\ a # editingNodeId
          /\ label[a] = "a"
          /\ LabelOf(nodes, a) = ""

\* C32: while a node is the text-editing one, a keystroke changes only that
\* node's local buffer: the nodes, edges, history and cursor of the store,
\* the text-editing target and the buffers of the other nodes are unchanged.
C32_KeystrokesChangeOnlyBuffer ==
    [][(lastOp'.name = "handleTextChange") =>
          /\ editingNodeId = lastOp'.id
          /\ nodes' = nodes
          /\ edges' = edges
          /\ history' = history
          /\ historyIndex' = historyIndex
          /\ editingNodeId' = editingNodeId
          /\ \A id \in Ids \ {lastOp'.id} : label'[id] = label[id]
    ]_vars

\* C32 witness: a keystroke has put a text in the buffer of the node being
\* edited that its stored label does not hold, over a non-empty history.
C32_Witness ==
    /\ lastOp.name = "handleTextChange"
    /\ editingNodeId = lastOp.id
    /\ label[lastOp.id] = "a"
    /\ LabelOf(nodes, lastOp.id) = ""
    /\ history # <<>>
    /\ history[historyIndex + 1].nodes = nodes

\* The pointer has moved up and to the left, or down and to the right, of
\* where the gesture began.
UpLeft(delta) == delta[1] < 0 /\ delta[2] < 0
DownRight(delta) == delta[1] > 0 /\ delta[2] > 0

\* C33 (as claimed): a pointer-move of a gesture on the top-left corner with
\* the pointer up and to the left of the start writes a width and a height
\* below the ones captured at pointer-down, and one on the bottom-right
\* corner with the pointer down and to the right writes larger ones.
C33_TopLeftOutwardDecreases ==
    [][(lastOp'.name \in ResizeMoves) =>
          \A i \in 1..Len(nodes') :
              nodes'[i].id = resizeState.id =>
                  /\ (resizeState.direction = "top-left"
                      /\ UpLeft(lastOp'.pos)) =>
                         /\ nodes'[i].data.width < resizeState.startWidth
                         /\ nodes'[i].data.height < resizeState.startHeight
                  /\ (resizeState.direction = "bottom-right"
                      /\ DownRight(lastOp'.pos)) =>
                         /\ nodes'[i].data.width > resizeState.startWidth
                         /\ nodes'[i].data.height > resizeState.startHeight
    ]_vars

\* C33 (amended): the size a pointer-move writes is computed from the size
\* captured at pointer-down and the cumulative pointer delta: the delta is
\* added for a right or bottom corner and subtracted for a left or top one,
\* each axis is raised to its floor, and for a circle both sides become the
\* smaller of the two.  So for a node that is no circle, dragging the
\* top-left corner outward (up and to the left) increases width and height,
\* as dragging the bottom-right corner outward (down and to the right) does.
C33_OutwardDragIncreases ==
    [][(lastOp'.name \in ResizeMoves) =>
          LET delta  == lastOp'.pos
              signX  == IF resizeState.direction \in
                              {"top-right", "bottom-right"} THEN 1 ELSE -1
              signY  == IF resizeState.direction \in
                              {"bottom-left", "bottom-right"} THEN 1 ELSE -1
              width  == Max(MinWidth(resizeState.variant),
                            resizeState.startWidth + signX * delta[1])
              height == Max(MinHeight(resizeState.variant),
                            resizeState.startHeight + signY * delta[2])
              circle == IF resizeState.variant = "popover"
                        THEN resizeState.nodeType = "circle"
                        ELSE DataOf(nodes, resizeState.id).nodeType = "circle"
          IN  \A i \in 1..Len(nodes') :
                  nodes'[i].id = resizeState.id =>
                      /\ IF circle
                         THEN /\ nodes'[i].data.width = Min(width, height)
                              /\ nodes'[i].data.height = Min(width, height)
                         ELSE /\ nodes'[i].data.width = width
                              /\ nodes'[i].data.height = height
                      /\ (/\ ~circle
                          /\ \/ /\ resizeState.direction = "top-left"
                                /\ UpLeft(delta)
                             \/ /\ resizeState.direction = "bottom-right"
                                /\ DownRight(delta)) =>
                             /\ nodes'[i].data.width > resizeState.startWidth
                             /\ nodes'[i].data.height > resizeState.startHeight
    ]_vars

\* C33 witness: a pointer-move 100 up and 100 to the left of the start, on
\* the top-left corner of a 120x80 rectangle, wrote 220x180.
C33_Witness ==
    /\ lastOp.name = "handleMouseMove"
    /\ lastOp.pos = <<-100, -100>>
    /\ resizeState.direction = "top-left"
    /\ resizeState.startWidth = 120
    /\ resizeState.startHeight = 80
    /\ Len(nodes) = 1
    /\ nodes[1].data.nodeType = "rectangle"
    /\ nodes[1].data.width = 220
    /\ nodes[1].data.height = 180

\* C34: whenever a node is not the text-editing one, the label its component
\* displays (its local buffer, custom-node.tsx:561) equals the label the
\* store holds for the node, after any sequence of text commits, cancels,
\* undos and redos.
C34_DisplayedLabelIsStoredLabel ==
    \A id \in NodeIds(nodes) :
        ~IsTextEditing(id) => label[id] = LabelOf(nodes, id)

C36_EditingTargetIsLive ==
    editingNodeId = 0 \/ editingNodeId \in NodeIds(nodes)

\* C37: no two consecutive history entries are identical: every operation
\* that appends to the history appends an entry that differs from the entry
\* before it, so each effective undo() changes the visible document.
C37_ConsecutiveEntriesDiffer ==
    \A i \in 1..(Len(history) - 1) : history[i + 1] # history[i]

\* the data fields a write of the named handler may set
WrittenFields(name) ==
    CASE name = "handleTextSubmit"   -> {"label"}
      [] name = "handleColorChange"  -> {"backgroundColor", "textColor"}
      [] name = "handleBorderChange" -> {"borderStyle"}
      [] name = "onUpdateNode"       -> {"backgroundColor", "textColor",
                                         "borderStyle"}
      [] OTHER                       -> {"width", "height"}

\* data e is data d with at most the given fields set anew
SameExcept(d, e, fields) ==
    /\ DOMAIN e \subseteq (DOMAIN d \cup fields)
    /\ \A f \in DOMAIN d \ fields : f \in DOMAIN e /\ e[f] = d[f]

\* C38: a text commit, a style change and a resize write on node n change
\* only the data fields of n they are about: the id, type and position of
\* n, the number and order of the nodes, every other node and all edges are
\* unchanged.
C38_WritesChangeOnlyTheirFields ==
    [][(/\ lastOp'.name \in {"handleTextSubmit", "handleColorChange",
                             "handleBorderChange", "onUpdateNode",
                             "handleMouseMove", "handleResizeMove"}
        /\ lastOp'.id # 0)
       => /\ Len(nodes') = Len(nodes)
          /\ edges' = edges
          /\ \A i \in 1..Min(Len(nodes), Len(nodes')) :
                /\ nodes'[i].id = nodes[i].id
                /\ nodes'[i].type = nodes[i].type
                /\ nodes'[i].position = nodes[i].position
                /\ (nodes[i].id # lastOp'.id) => nodes'[i] = nodes[i]
                /\ (nodes[i].id = lastOp'.id) =>
                      SameExcept(nodes[i].data, nodes'[i].data,
                                 WrittenFields(lastOp'.name))
    ]_vars

C40_RetainedEntriesKeepContent ==
    [][/\ \A i \in 1..(historyIndex + 1) :
             i <= Len(history') /\ history'[i] = history[i]
       /\ \/ history' = history
          \/ /\ Len(history') = historyIndex + 2
             /\ SubSeq(history', 1, historyIndex + 1)
                   = SubSeq(history, 1, historyIndex + 1)
    ]_vars

\* C40 witness: an edit has been committed after an undo(): the cursor was
\* at least 0 and below the last entry, and the log now ends with the new
\* entry right after the entry the cursor was on.
C40_Witness ==
    /\ Saved(lastOp)
    /\ lastOp.hidx >= 0
    /\ lastOp.hidx < lastOp.hlen - 1
    /\ Len(history) = lastOp.hidx + 2
    /\ historyIndex = lastOp.hidx + 1
    /\ history[historyIndex + 1] # history[historyIndex]
=============================================================================
